---- MODULE Spec2Model ----
(***************************************************************************)
(* Movie Recommender System (src/app.py): the startup loads, the           *)
(* similarity lookup of recommend, the poster resolution of fetch_poster   *)
(* and the rendering of the result.                                        *)
(*                                                                         *)
(* Conventions.  Python positions are 0-based, TLA+ sequences 1-based: a   *)
(* catalog index i of the model is the DataFrame position i - 1.  Scores   *)
(* are the similarity values times ten (1.0 is 10, 0.9 is 9).  A URL or a  *)
(* poster path is a sequence of text segments; concatenation is \o and     *)
(* the substring test for "placeholder" looks for that segment.            *)
(***************************************************************************)
EXTENDS Integers, Sequences, FiniteSets, TLC

VARIABLES
    disk_movies,                \* movies.pkl on disk: "absent", "corrupt", "valid"
    disk_similarity,            \* similarity.pkl: "absent", "partial", "corrupt", "valid"
    pc,                         \* position of the script run
    movies,                     \* the catalog DataFrame: sequence of [movie_id, title]
    similarity,                 \* the similarity matrix: sequence of rows
    selected_movie_name,        \* value of the selectbox
    movies_list,                \* recommend: the (index, score) pairs kept
    recommended_movies,         \* recommend: titles appended so far
    recommended_movies_posters, \* recommend: poster URLs appended so far
    failed_posters,             \* recommend: counter of placeholder URLs
    fetch_failed,               \* history: per result, whether the poster was not resolved
    errors,                     \* st.error messages shown in this run
    notice,                     \* the st.info notice of recommend
    view,                       \* what the button branch rendered
    fp_movie_id,                \* fetch_poster called alone: its argument
    fp_response,                \* fetch_poster called alone: what the network answers
    fp_result                   \* fetch_poster called alone: its outcome

vars == <<disk_movies, disk_similarity, pc, movies, similarity, selected_movie_name,
          movies_list, recommended_movies, recommended_movies_posters, failed_posters,
          fetch_failed, errors, notice, view, fp_movie_id, fp_response, fp_result>>

(***************************************************************************)
(* Bounds and program constants                                            *)
(***************************************************************************)
\* largest catalog modelled
MaxN == 7

\* sorted(...)[1:6]: the slice bounds of line 108
SliceStart == 1
SliceStop == 6
\* "out of 5" in the notice of line 126
NoticeTotal == 5
\* len(names) == 5 and st.columns(5), lines 174-177
ColumnCount == 5

\* similarity scores times ten
Scores == {1, 9, 10}

Min(a, b) == IF a < b THEN a ELSE b

(***************************************************************************)
(* URLs                                                                    *)
(***************************************************************************)
ImageBase == <<"https://image.tmdb.org/t/p/w500/">>
PlaceholderUrl == <<"https://via.", "placeholder", ".com/500x750?text=No+Poster">>

\* "placeholder" in poster_url
ContainsPlaceholder(url) == \E i \in 1..Len(url) : url[i] = "placeholder"

\* poster paths the metadata API may answer with
PosterPaths == { <<>>, <<"/kqjL17.jpg">>, <<"/", "placeholder", ".jpg">> }

(***************************************************************************)
(* The network's answers to the metadata request                           *)
(***************************************************************************)
\* body kinds: not JSON, JSON without the key, JSON null, JSON string
Bodies ==
    { [kind |-> k, poster_path |-> <<>>] : k \in {"unparsable", "no_key", "null"} }
    \cup { [kind |-> "string", poster_path |-> p] : p \in PosterPaths }

Responses ==
    { [transport |-> t, status |-> 0, body |-> [kind |-> "unparsable", poster_path |-> <<>>]]
        : t \in {"timeout", "connection_error"} }
    \cup { [transport |-> "ok", status |-> s, body |-> b] : s \in {200, 404}, b \in Bodies }

Return(v) == [raised |-> FALSE, value |-> v]
Raise == [raised |-> TRUE, value |-> <<>>]

\* the try block without the test of the status code
fetch_poster_try_any_status(movie_id, response) ==
    IF response.transport # "ok" \/ response.body.kind = "unparsable" THEN Raise
    ELSE IF response.body.kind = "string" /\ response.body.poster_path # <<>>
         THEN Return(ImageBase \o response.body.poster_path)
         ELSE Return(PlaceholderUrl)

\* the try block of fetch_poster
fetch_poster_try(movie_id, response) ==
    IF response.transport # "ok" THEN Raise                         \* requests.get raises
    ELSE IF response.status = 200
         THEN IF response.body.kind = "unparsable" THEN Raise       \* response.json() raises
              ELSE IF response.body.kind = "string" /\ response.body.poster_path # <<>>
                   THEN Return(ImageBase \o response.body.poster_path)
                   ELSE Return(PlaceholderUrl)
         ELSE Return(PlaceholderUrl)

\* fetch_poster without its except clause
fetch_poster_unguarded(movie_id, response) == fetch_poster_try(movie_id, response)

fetch_poster(movie_id, response) ==
    LET r == fetch_poster_try(movie_id, response)
    IN  IF r.raised THEN Return(PlaceholderUrl) ELSE r

\* the poster is resolved: status 200 and a non-empty poster path in the body
Resolved(response) ==
    /\ response.transport = "ok"
    /\ response.status = 200
    /\ response.body.kind = "string"
    /\ response.body.poster_path # <<>>

(***************************************************************************)
(* The catalog and the similarity matrix                                   *)
(***************************************************************************)
Titles == <<"A", "B", "C", "D", "E", "F", "G", "H", "I", "J">>
\* a title of no catalog entry
UnknownTitle == "Z"
\* st.selectbox over no options returns None
NoneTitle == "None"

\* n entries; with dup, the last entry carries the first entry's title again
Catalog(n, dup) ==
    [i \in 1..n |-> [movie_id |-> 100 + i,
                     title |-> IF dup /\ i = n THEN Titles[1] ELSE Titles[i]]]

Catalogs == { Catalog(n, FALSE) : n \in 0..MaxN } \cup { Catalog(n, TRUE) : n \in 2..MaxN }

\* the matrix whose every row is r
RowsEqual(n, r) == [i \in 1..n |-> r]

\* the matrix of the specification's example, times ten
ExampleMatrix == << <<10, 9, 1>>, <<9, 10, 2>>, <<1, 2, 10>> >>

\* every square matrix of the family: one row over Scores, repeated, and the example
Matrices(n) ==
    { RowsEqual(n, r) : r \in [1..n -> Scores] }
    \cup (IF n = 3 THEN {ExampleMatrix} ELSE {})

\* symmetric, 1.0 on the diagonal, the score falling with the distance of the indexes
Banded(n) == [i \in 1..n |-> [j \in 1..n |-> IF i >= j THEN 10 - (i - j) ELSE 10 - (j - i)]]

\* the matrices the application run loads: the banded one, scores falling with
\* the index in every row, all scores tied, and the example
SampleMatrices(n) ==
    { Banded(n), RowsEqual(n, [j \in 1..n |-> 10 - j]), RowsEqual(n, [j \in 1..n |-> 10]) }
    \cup (IF n = 3 THEN {ExampleMatrix} ELSE {})

(***************************************************************************)
(* recommend: lookup and ranking (lines 106-108)                           *)
(***************************************************************************)
\* movies[movies['title'] == movie].index[0]: IndexError when nothing matches
movie_index(movie, catalog) ==
    LET hits == { i \in 1..Len(catalog) : catalog[i].title = movie }
    IN  IF hits = {} THEN Raise
        ELSE Return(CHOOSE i \in hits : \A j \in hits : i <= j)

\* list(enumerate(distances))
Enumerate(distances) == [i \in 1..Len(distances) |-> <<i, distances[i]>>]

\* x goes behind every pair whose score is not smaller: equal scores keep their order
RECURSIVE InsertDesc(_, _)
InsertDesc(s, x) ==
    IF s = <<>> THEN <<x>>
    ELSE IF Head(s)[2] >= x[2] THEN <<Head(s)>> \o InsertDesc(Tail(s), x)
    ELSE <<x>> \o s

RECURSIVE SortedDescUpTo(_, _)
SortedDescUpTo(pairs, k) ==
    IF k = 0 THEN <<>> ELSE InsertDesc(SortedDescUpTo(pairs, k - 1), pairs[k])

\* the sort without reverse=True
SortedAscending(pairs) ==
    LET s == SortedDescUpTo(pairs, Len(pairs))
    IN  [k \in 1..Len(s) |-> s[Len(s) + 1 - k]]

\* sorted(pairs, reverse=True, key=lambda x: x[1]): stable, descending by score
SortedDesc(pairs) == SortedDescUpTo(pairs, Len(pairs))

\* s[a:b] of Python
Slice(s, a, b) == SubSeq(s, a + 1, Min(b, Len(s)))

\* the slice one short: [1:5]
TopSliceShort(s) == Slice(s, SliceStart, SliceStop - 1)

\* sorted(...)[1:6]
TopSlice(s) == Slice(s, SliceStart, SliceStop)

Ranked(distances) == TopSlice(SortedDesc(Enumerate(distances)))

(***************************************************************************)
(* load_similarity_data (lines 46-83)                                      *)
(***************************************************************************)
\* what the download does: the request raises before the file is opened, the
\* stream raises after open(destination, "wb"), the stream ends with content
\* that is no pickle, the stream ends with the matrix
DownloadOutcomes == {"request_error", "write_error", "not_pickle", "ok"}

download_large_file_from_google_drive(disk, outcome) ==
    CASE outcome = "request_error" -> [disk |-> disk, raised |-> TRUE]
      [] outcome = "write_error"   -> [disk |-> "partial", raised |-> TRUE]
      [] outcome = "not_pickle"    -> [disk |-> "corrupt", raised |-> FALSE]
      [] outcome = "ok"            -> [disk |-> "valid", raised |-> FALSE]

\* pickle.load(f) of the file succeeds
Unpickles(disk) == disk = "valid"

Loaded(disk, content, errs) == [disk |-> disk, none |-> FALSE, value |-> content, errors |-> errs]
NoneResult(disk, errs) == [disk |-> disk, none |-> TRUE, value |-> <<>>, errors |-> errs]

\* the load without its except clause: whatever is on disk is returned
load_similarity_file_unchecked(disk, content) == Loaded(disk, content, {})

\* lines 74-83: load, or report and remove the file
load_similarity_file(disk, content) ==
    IF Unpickles(disk) THEN Loaded(disk, content, {})
    ELSE NoneResult("absent", {"error_loading_similarity"})

load_similarity_data(disk, outcome, content) ==
    IF disk = "absent"
    THEN LET d == download_large_file_from_google_drive(disk, outcome)
         IN  IF d.raised
             THEN NoneResult(d.disk, {"failed_to_download"})
             ELSE IF ~Unpickles(d.disk)
                  THEN NoneResult("absent", {"downloaded_file_corrupted"})
                  ELSE load_similarity_file(d.disk, content)
    ELSE load_similarity_file(disk, content)

(***************************************************************************)
(* The script run                                                          *)
(***************************************************************************)
NoNotice == [shown |-> FALSE, failed |-> 0, total |-> 0]
NoResult == [raised |-> FALSE, value |-> <<>>]

\* the locals of recommend and what the button branch showed, before a click
Cleared ==
    /\ movies_list = <<>>
    /\ recommended_movies = <<>>
    /\ recommended_movies_posters = <<>>
    /\ failed_posters = 0
    /\ fetch_failed = <<>>
    /\ notice = NoNotice
    /\ view = "none"

NoFetchCall ==
    /\ fp_movie_id = 0
    /\ fp_response = [transport |-> "ok", status |-> 0,
                      body |-> [kind |-> "unparsable", poster_path |-> <<>>]]
    /\ fp_result = NoResult

\* the process starts: the two artifacts are on disk or not
Init ==
    /\ disk_movies \in {"absent", "corrupt", "valid"}
    /\ disk_similarity \in {"absent", "corrupt", "valid"}
    /\ pc = "load_movies"
    /\ movies = <<>>
    /\ similarity = <<>>
    /\ selected_movie_name = NoneTitle
    /\ errors = {}
    /\ Cleared
    /\ NoFetchCall

\* lines 146-154
LoadMovies ==
    /\ pc = "load_movies"
    /\ IF disk_movies = "absent"
       THEN /\ errors' = errors \cup {"movies_not_found"}
            /\ pc' = "stopped"
            /\ movies' = movies
       ELSE IF disk_movies = "corrupt"
       THEN /\ errors' = errors \cup {"error_loading_movies"}
            /\ pc' = "stopped"
            /\ movies' = movies
       ELSE /\ \E c \in Catalogs : movies' = c
            /\ pc' = "load_similarity"
            /\ errors' = errors
    /\ UNCHANGED <<disk_movies, disk_similarity, similarity, selected_movie_name,
                   movies_list, recommended_movies, recommended_movies_posters,
                   failed_posters, fetch_failed, notice, view,
                   fp_movie_id, fp_response, fp_result>>

\* the option the selectbox shows first
DefaultSelection(catalog) == IF catalog = <<>> THEN NoneTitle ELSE catalog[1].title

\* lines 157-168: load the matrix, stop on None, else show the selectbox
LoadSimilarity ==
    /\ pc = "load_similarity"
    /\ \E outcome \in DownloadOutcomes, content \in SampleMatrices(Len(movies)) :
         LET r == load_similarity_data(disk_similarity, outcome, content)
         IN  /\ disk_similarity' = r.disk
             /\ IF r.none
                THEN /\ errors' = errors \cup r.errors \cup {"could_not_load_similarity"}
                     /\ pc' = "stopped"
                     /\ UNCHANGED <<similarity, selected_movie_name>>
                ELSE /\ errors' = errors \cup r.errors
                     /\ similarity' = r.value
                     /\ selected_movie_name' = DefaultSelection(movies)
                     /\ pc' = "idle"
    /\ UNCHANGED <<disk_movies, movies, movies_list, recommended_movies,
                   recommended_movies_posters, failed_posters, fetch_failed, notice, view,
                   fp_movie_id, fp_response, fp_result>>

\* the user picks another option; the rerun loads the same catalog and the
\* cached matrix again
Select ==
    /\ pc = "idle"
    /\ \E i \in 1..Len(movies) : selected_movie_name' = movies[i].title
    /\ selected_movie_name' # selected_movie_name
    /\ UNCHANGED <<disk_movies, disk_similarity, pc, movies, similarity,
                   movies_list, recommended_movies, recommended_movies_posters,
                   failed_posters, fetch_failed, errors, notice, view,
                   fp_movie_id, fp_response, fp_result>>

\* a handler that shows nothing
recommend_except_silent(errs) == errs

\* st.error of the handler of lines 130-132
recommend_except(errs) == errs \cup {"error_getting_recommendations"}

\* the button is pressed: recommend runs lines 105-112, or its handler 130-132
RecommendStart ==
    /\ pc = "idle"
    /\ LET idx == movie_index(selected_movie_name, movies)
       IN  IF idx.raised
           THEN /\ errors' = recommend_except(errors)
                /\ pc' = "render"
                /\ UNCHANGED movies_list
           ELSE /\ movies_list' = Ranked(similarity[idx.value])
                /\ pc' = "fetch"
                /\ UNCHANGED errors
    /\ recommended_movies' = <<>>
    /\ recommended_movies_posters' = <<>>
    /\ failed_posters' = 0
    /\ fetch_failed' = <<>>
    /\ UNCHANGED <<disk_movies, disk_similarity, movies, similarity, selected_movie_name,
                   notice, view, fp_movie_id, fp_response, fp_result>>

\* one turn of the loop of lines 114-123
FetchStep ==
    /\ pc = "fetch"
    /\ Len(recommended_movies) < Len(movies_list)
    /\ \E response \in Responses :
         LET i == movies_list[Len(recommended_movies) + 1]
             movie_id == movies[i[1]].movie_id
             movie_title == movies[i[1]].title
             poster == fetch_poster(movie_id, response)
         IN  IF poster.raised
             THEN \* an exception leaves the loop for the handler of lines 130-132
                  /\ errors' = recommend_except(errors)
                  /\ recommended_movies' = <<>>
                  /\ recommended_movies_posters' = <<>>
                  /\ pc' = "render"
                  /\ UNCHANGED <<failed_posters, fetch_failed>>
             ELSE /\ recommended_movies' = Append(recommended_movies, movie_title)
                  /\ failed_posters' = IF ContainsPlaceholder(poster.value)
                                       THEN failed_posters + 1 ELSE failed_posters
                  /\ recommended_movies_posters' =
                         Append(recommended_movies_posters, poster.value)
                  /\ fetch_failed' = Append(fetch_failed, ~Resolved(response))
                  /\ UNCHANGED <<errors, pc>>
    /\ UNCHANGED <<disk_movies, disk_similarity, movies, similarity, selected_movie_name,
                   movies_list, notice, view, fp_movie_id, fp_response, fp_result>>

\* the notice st.info would show: lines 125-126
failure_notice(failed) ==
    IF failed > 0 THEN [shown |-> TRUE, failed |-> failed, total |-> NoticeTotal]
    ELSE NoNotice

\* lines 125-128: the loop is over
RecommendReturn ==
    /\ pc = "fetch"
    /\ Len(recommended_movies) = Len(movies_list)
    /\ notice' = failure_notice(failed_posters)
    /\ pc' = "render"
    /\ UNCHANGED <<disk_movies, disk_similarity, movies, similarity, selected_movie_name,
                   movies_list, recommended_movies, recommended_movies_posters,
                   failed_posters, fetch_failed, errors, view,
                   fp_movie_id, fp_response, fp_result>>

\* the branch of lines 174-205 taken for names, posters
render_branch(names, posters) ==
    IF names # <<>> /\ posters # <<>> /\ Len(names) = ColumnCount THEN "columns"
    ELSE IF names # <<>> /\ posters # <<>> THEN "list"
    ELSE "error"

\* lines 174-205
Render ==
    /\ pc = "render"
    /\ view' = render_branch(recommended_movies, recommended_movies_posters)
    /\ errors' = IF view' = "error"
                 THEN errors \cup {"could_not_get_recommendations"} ELSE errors
    /\ pc' = "done"
    /\ UNCHANGED <<disk_movies, disk_similarity, movies, similarity, selected_movie_name,
                   movies_list, recommended_movies, recommended_movies_posters,
                   failed_posters, fetch_failed, notice,
                   fp_movie_id, fp_response, fp_result>>

\* the next interaction reruns the script: the button reads False again
Rerun ==
    /\ pc = "done"
    /\ pc' = "idle"
    /\ errors' = {}
    /\ movies_list' = <<>>
    /\ recommended_movies' = <<>>
    /\ recommended_movies_posters' = <<>>
    /\ failed_posters' = 0
    /\ fetch_failed' = <<>>
    /\ notice' = NoNotice
    /\ view' = "none"
    /\ UNCHANGED <<disk_movies, disk_similarity, movies, similarity, selected_movie_name,
                   fp_movie_id, fp_response, fp_result>>

\* after st.stop() the page is refreshed in a new process: the files are as the
\* last run left them, nothing is cached
Restart ==
    /\ pc = "stopped"
    /\ pc' = "load_movies"
    /\ errors' = {}
    /\ movies' = <<>>
    /\ similarity' = <<>>
    /\ selected_movie_name' = NoneTitle
    /\ UNCHANGED <<disk_movies, disk_similarity, movies_list, recommended_movies,
                   recommended_movies_posters, failed_posters, fetch_failed, notice, view,
                   fp_movie_id, fp_response, fp_result>>

Next ==
    \/ LoadMovies
    \/ LoadSimilarity
    \/ Select
    \/ RecommendStart
    \/ FetchStep
    \/ RecommendReturn
    \/ Render
    \/ Rerun
    \/ Restart

Spec == Init /\ [][Next]_vars

(***************************************************************************)
(* recommend called on any catalog, matrix and title, up to the first poster *)
(***************************************************************************)
InitLookup ==
    /\ disk_movies = "valid"
    /\ disk_similarity = "valid"
    /\ pc = "idle"
    /\ movies \in Catalogs
    /\ similarity \in Matrices(Len(movies))
    /\ selected_movie_name \in { movies[i].title : i \in 1..Len(movies) } \cup {UnknownTitle}
    /\ errors = {}
    /\ Cleared
    /\ NoFetchCall

NextLookup ==
    \/ RecommendStart
    \/ Render

SpecLookup == InitLookup /\ [][NextLookup]_vars

(***************************************************************************)
(* fetch_poster called on any answer of the network                        *)
(***************************************************************************)
InitFetch ==
    /\ disk_movies = "valid"
    /\ disk_similarity = "valid"
    /\ pc = "fetch_poster"
    /\ movies = <<>>
    /\ similarity = <<>>
    /\ selected_movie_name = NoneTitle
    /\ errors = {}
    /\ Cleared
    /\ fp_movie_id \in { 100 + i : i \in 1..MaxN }
    /\ fp_response \in Responses
    /\ fp_result = NoResult

FetchPosterCall ==
    /\ pc = "fetch_poster"
    /\ fp_result' = fetch_poster(fp_movie_id, fp_response)
    /\ pc' = "fetch_poster_done"
    /\ UNCHANGED <<disk_movies, disk_similarity, movies, similarity, selected_movie_name,
                   movies_list, recommended_movies, recommended_movies_posters,
                   failed_posters, fetch_failed, errors, notice, view,
                   fp_movie_id, fp_response>>

NextFetch == FetchPosterCall

SpecFetch == InitFetch /\ [][NextFetch]_vars

(***************************************************************************)
(* Properties                                                              *)
(***************************************************************************)
\* the selected title is a title of the catalog
TitleKnown == \E i \in 1..Len(movies) : movies[i].title = selected_movie_name

\* the first catalog index carrying the selected title
SelfIndex ==
    CHOOSE i \in 1..Len(movies) :
        /\ movies[i].title = selected_movie_name
        /\ \A j \in 1..(i - 1) : movies[j].title # selected_movie_name

\* the row of the matrix recommend reads
SelfRow == similarity[SelfIndex]

\* the catalog indexes of the list recommend keeps
ListedIndexes == { movies_list[k][1] : k \in 1..Len(movies_list) }

\* recommend has ranked: it is in its loop, has returned, or its result is rendered
Ranking == pc \in {"fetch", "render", "done"}
Returned == pc \in {"render", "done"}

NonIncreasing(list) == \A k \in 1..(Len(list) - 1) : list[k][2] >= list[k + 1][2]

\* C1: for a known title, the list recommend returns never holds the catalog
\* index of the selected title itself, whatever the scores of its row
C1_SelfNeverListed ==
    (Ranking /\ TitleKnown) => SelfIndex \notin ListedIndexes

\* C2: for a known title and a catalog of at least 6 entries, recommend returns
\* exactly 5 titles and exactly 5 poster URLs
C2_ExactlyFive ==
    (Returned /\ TitleKnown /\ Len(movies) >= 6)
        => /\ Len(recommended_movies) = 5
           /\ Len(recommended_movies_posters) = 5

C2_Witness ==
    /\ pc = "done"
    /\ Len(movies) >= 6
    /\ Len(recommended_movies) = 5
    /\ Len(recommended_movies_posters) = 5
    /\ view = "columns"

\* C3: the scores of the returned entries, each the selected row's score of its
\* index, do not increase from first to last, and apart from one dropped entry
\* of the highest score no entry left out scores more than the last one returned
C3_RankedDescending ==
    (Ranking /\ TitleKnown) =>
        /\ \A k \in 1..Len(movies_list) :
              /\ movies_list[k][1] \in 1..Len(movies)
              /\ movies_list[k][2] = SelfRow[movies_list[k][1]]
        /\ Cardinality(ListedIndexes) = Len(movies_list)
        /\ NonIncreasing(movies_list)
        /\ \E d \in (1..Len(movies)) \ ListedIndexes :
              /\ \A j \in 1..Len(movies) : SelfRow[j] <= SelfRow[d]
              /\ \A j \in (1..Len(movies)) \ (ListedIndexes \cup {d}) :
                    movies_list # <<>> => SelfRow[j] <= movies_list[Len(movies_list)][2]

C3_Witness ==
    /\ pc = "fetch"
    /\ TitleKnown
    /\ Len(movies) >= 7
    /\ Len(movies_list) = 5
    /\ movies_list[1][2] > movies_list[3][2]
    /\ movies_list[3][2] = movies_list[4][2]
    /\ movies_list[4][2] > movies_list[5][2]
    /\ \E j \in (1..Len(movies)) \ ListedIndexes : SelfRow[j] = movies_list[5][2]

\* C4: for a known title and a catalog of at least 6 entries, whatever each of
\* the poster requests meets, all 5 results are fetched and returned, 5 titles
\* and 5 URLs, the placeholder in every position whose request failed
C4_FailuresNeverAbort ==
    (Ranking /\ TitleKnown /\ Len(movies) >= 6) =>
        /\ Len(fetch_failed) = Len(recommended_movies)
        /\ Len(recommended_movies_posters) = Len(recommended_movies)
        /\ \A k \in 1..Len(fetch_failed) :
              /\ k <= Len(recommended_movies_posters)
              /\ fetch_failed[k] => recommended_movies_posters[k] = PlaceholderUrl
              /\ recommended_movies[k] = movies[movies_list[k][1]].title
        /\ Returned => /\ Len(fetch_failed) = 5
                       /\ Len(recommended_movies) = 5
                       /\ Len(recommended_movies_posters) = 5

C4_Witness ==
    /\ pc = "done"
    /\ Len(movies) >= 6
    /\ Len(fetch_failed) = 5
    /\ fetch_failed[1]
    /\ ~fetch_failed[2]
    /\ fetch_failed[3]
    /\ recommended_movies_posters[1] = PlaceholderUrl
    /\ recommended_movies_posters[2] # PlaceholderUrl
    /\ view = "columns"

\* C5: when the selected title is no title of the catalog, recommend shows its
\* error, fetches nothing and returns no title and no poster, and the caller
\* shows its own error in place of a result
C5_UnknownTitleSurfaced ==
    (Ranking /\ ~TitleKnown) =>
        /\ pc # "fetch"
        /\ "error_getting_recommendations" \in errors
        /\ movies_list = <<>>
        /\ fetch_failed = <<>>
        /\ recommended_movies = <<>>
        /\ recommended_movies_posters = <<>>
        /\ pc = "done" => /\ view = "error"
                          /\ "could_not_get_recommendations" \in errors

C5_Witness ==
    /\ pc = "done"
    /\ Len(movies) >= 6
    /\ selected_movie_name = UnknownTitle
    /\ view = "error"
    /\ errors = {"error_getting_recommendations", "could_not_get_recommendations"}

\* the selectbox and the button are on the page
WidgetsShown == pc \in {"idle", "fetch", "render", "done"}
LoadsOver == pc \notin {"load_movies", "load_similarity"}

\* C6: when movies.pkl or similarity.pkl (after the download, when it was absent)
\* is missing or does not unpickle, an error is shown and the run is stopped
\* without the selectbox or the button; these are shown only over two loaded
\* artifacts
C6_FailedLoadStops ==
    /\ WidgetsShown => /\ disk_movies = "valid"
                       /\ disk_similarity = "valid"
                       /\ Len(similarity) = Len(movies)
    /\ (LoadsOver /\ (disk_movies # "valid" \/ disk_similarity # "valid"))
          => /\ pc = "stopped"
             /\ view = "none"
             /\ \/ {"movies_not_found", "error_loading_movies"} \cap errors # {}
                \/ "could_not_load_similarity" \in errors

C6_Witness ==
    /\ pc = "stopped"
    /\ disk_movies = "valid"
    /\ errors = {"error_loading_similarity", "could_not_load_similarity"}
    /\ disk_similarity = "absent"

\* C7: for the example matrix and the titles A, B, C, the titles returned for A
\* are B, C in that order; for a known title and a catalog of fewer than 6
\* entries the returned titles are all other entries in descending score order
C7_AllOthersDescending ==
    (Returned /\ TitleKnown /\ Len(movies) < 6) =>
        /\ ListedIndexes = (1..Len(movies)) \ {SelfIndex}
        /\ Len(movies_list) = Len(movies) - 1
        /\ NonIncreasing(movies_list)
        /\ recommended_movies = [k \in 1..Len(movies_list) |-> movies[movies_list[k][1]].title]
        /\ (similarity = ExampleMatrix /\ movies = Catalog(3, FALSE) /\ selected_movie_name = "A")
              => recommended_movies = <<"B", "C">>

\* C8: fetch_poster returns the image base followed by the poster path exactly
\* when the request ends with status 200 and a non-empty poster path; in every
\* other outcome it returns the placeholder URL; it never raises
C8_PosterOrPlaceholder ==
    pc = "fetch_poster_done" =>
        /\ ~fp_result.raised
        /\ Resolved(fp_response)
              => fp_result.value = ImageBase \o fp_response.body.poster_path
        /\ ~Resolved(fp_response) => fp_result.value = PlaceholderUrl
        /\ fp_result.value # PlaceholderUrl => Resolved(fp_response)

C8_Witness ==
    /\ pc = "fetch_poster_done"
    /\ fp_response.transport = "ok"
    /\ fp_response.status = 404
    /\ fp_response.body.kind = "string"
    /\ fp_response.body.poster_path # <<>>
    /\ fp_result = Return(PlaceholderUrl)

\* the results whose poster request failed
FailedFetches == { k \in 1..Len(fetch_failed) : fetch_failed[k] }

\* C9: once recommend has returned for a known title, the count reported is the
\* number of results whose poster request failed, the notice is shown exactly
\* when that number is positive, and the total in it is the number of results
C9_NoticeCountsFailures ==
    (Returned /\ TitleKnown) =>
        /\ failed_posters = Cardinality(FailedFetches)
        /\ notice.shown <=> Cardinality(FailedFetches) > 0
        /\ notice.shown => /\ notice.failed = Cardinality(FailedFetches)
                           /\ notice.total = Len(recommended_movies)

\* C10: whenever load_similarity_data has returned None, no similarity.pkl is
\* left on disk
C10_NoFileAfterFailedLoad ==
    (pc = "stopped" /\ "could_not_load_similarity" \in errors) => disk_similarity = "absent"

====
